---- MODULE Spec2Model ----
(***************************************************************************)
(* Dashboard of the financial tracker.                                     *)
(* The receipt ingestion pipeline:                                         *)
(*   - the ReceiptUpload component (handleFileUpload and its helpers       *)
(*     uploadFile / createReceiptRecord / processReceipt),                 *)
(*   - the process-receipt edge function (the serve handler),              *)
(*   - the receipts table and the receipts storage bucket they share.      *)
(* The transaction pages:                                                  *)
(*   - the TransactionList component (date filters and its fetch),         *)
(*   - the TransactionForm component (category fetches and submit).        *)
(* Every await of the code is a step boundary: the code between two awaits *)
(* runs as one action.  A call to the record store or the object store     *)
(* takes effect atomically and either succeeds or returns an error.        *)
(***************************************************************************)
EXTENDS Integers, Sequences, FiniteSets, TLC

(* ------------------------------ bounds -------------------------------- *)
\* calls made by clients: submissions through the component (they share its
\* state) plus requests sent to the edge function by other clients; also the
\* transactions that can be added through the form
MaxCalls == 2
\* Math.random() is drawn from the grid {0/RandGrid, ..., (RandGrid-1)/RandGrid}
RandGrid == 3
\* the first day on which the function runs, in days since 1970-01-01
\* (20088 is 2024-12-31)
BaseDay == 20088

\* the transactions table holds one row for each of the days 1..MaxDay
MaxDay == 3
\* category fetches of the transaction form that can be in flight at once
MaxFetches == 2

(* ------------------------- program constants -------------------------- *)
validTypes == {"image/jpeg", "image/png", "image/webp", "application/pdf"}
\* the ceiling taken as 10 MB instead of 10 MiB
MaxFileSizeDecimal == 10 * 1000 * 1000
MaxFileSize == 10 * 1024 * 1024

NoUser == "anon"
Users == {"u1"}
\* the user signed in to the dashboard that renders the component
SessionUser == "u1"
\* an identifier no insert ever generates (ids are random UUIDs)
NoSuchId == 0

\* request i \in Subs is the one submission i sends
Subs == 1..MaxCalls
Directs == (MaxCalls + 1)..(2 * MaxCalls)
Invs == Subs \cup Directs

(* ------------------------------- files -------------------------------- *)
FileTypes == validTypes \cup {"text/plain", "image/gif"}
FileSizes ==
  {2 * 1024 * 1024, 10 * 1024 * 1024, 10 * 1024 * 1024 + 1, 11 * 1000 * 1000}
Files == [name : {"receipt.jpg"}, type : FileTypes, size : FileSizes]
NoFile == [name |-> "", type |-> "", size |-> 0]
\* the FileList handed to handleFileUpload: empty, or one file
FileLists == {<< >>} \cup {<<f>> : f \in Files}
\* scenarios A, B and C: a 2 MiB JPEG, an 11 MB JPEG and a text file
ScenarioFiles ==
  {f \in Files : \/ f.type = "image/jpeg" /\ f.size = 2 * 1024 * 1024
                 \/ f.type = "image/jpeg" /\ f.size = 11 * 1000 * 1000
                 \/ f.type = "text/plain" /\ f.size = 2 * 1024 * 1024}
ScenarioFileLists == {<< >>} \cup {<<f>> : f \in ScenarioFiles}

(* ------------------------------ payload ------------------------------- *)
NoData == [null |-> TRUE]

\* Math.floor(x / y) for x >= 0, y > 0
Floor(x, y) == x \div y

Pad(n, w) ==
  LET s == ToString(n)
  IN  IF Len(s) >= w THEN s
      ELSE IF w - Len(s) = 1 THEN "0" \o s
      ELSE IF w - Len(s) = 2 THEN "00" \o s
      ELSE "000" \o s

\* Date.prototype.toISOString().split('T')[0] of the instant that lies `day`
\* days after 1970-01-01T00:00Z (proleptic Gregorian calendar, UTC)
ISODate(day) ==
  LET z   == day + 719468
      era == Floor(z, 146097)
      doe == z - era * 146097
      yoe == Floor(doe - Floor(doe, 1460) + Floor(doe, 36524) - Floor(doe, 146096), 365)
      doy == doe - (365 * yoe + Floor(yoe, 4) - Floor(yoe, 100))
      mp  == Floor(5 * doy + 2, 153)
      d   == doy - Floor(153 * mp + 2, 5) + 1
      m   == IF mp < 10 THEN mp + 3 ELSE mp - 9
      y   == yoe + era * 400 + (IF m <= 2 THEN 1 ELSE 0)
  IN  Pad(y, 4) \o "-" \o Pad(m, 2) \o "-" \o Pad(d, 2)

\* the values new Date() can take, in days since 1970-01-01
Days == {BaseDay, BaseDay + 1}

\* the pairs (Math.random() * RandGrid, new Date()) an extraction can draw
Draws == {<<0, BaseDay>>, <<RandGrid - 1, BaseDay + 1>>}

\* the division by 100 left out: Math.floor(Math.random() * 10000), in cents
MockTotalUndivided(r) == Floor(r * 10000, RandGrid) * 100

\* Math.floor(Math.random() * 10000) / 100 for Math.random() = r / RandGrid,
\* kept as an integer number of cents
MockTotal(r) == Floor(r * 10000, RandGrid)

\* mockExtractedData; prices are in cents
mockExtractedData(r, day) ==
  [total    |-> MockTotal(r),
   date     |-> ISODate(day),
   merchant |-> "Sample Store",
   items    |-> << [name |-> "Item 1", price |-> 1599],
                   [name |-> "Item 2", price |-> 2350] >>]

(* ------------------------------- state -------------------------------- *)
VARIABLES
  rls,            \* whether the row level security of the receipts table is on
  objects,        \* paths stored in the receipts bucket
  receipts,       \* the receipts table: a sequence of rows, the id is the index
  sub,            \* the calls of handleFileUpload
  inv,            \* the requests handled by the edge function
  uploading, processing, progress, extractedData,   \* state of ReceiptUpload
  refreshKey,     \* state of Dashboard
  startDate, endDate, transactions, listLoading,    \* state of TransactionList
  query,          \* the fetch of TransactionList that is in flight
  listToast,      \* the toast the last fetch of TransactionList showed
  formType, categories, categoryId, formLoading,    \* state of TransactionForm
  fetching,       \* the category fetches in flight, counted by type
  submit,         \* the create-transaction request in flight
  formToast       \* the toast the last submit showed

\* ReceiptUpload with the function, the table and the bucket
receiptVars == << rls, objects, receipts, sub, inv,
                 uploading, processing, progress, extractedData >>

\* TransactionList and TransactionForm
listVars == << startDate, endDate, transactions, listLoading, query, listToast >>
formVars == << formType, categories, categoryId, formLoading, fetching,
               submit, formToast >>
pages == << listVars, formVars >>

vars == << rls, objects, receipts, sub, inv,
           uploading, processing, progress, extractedData, refreshKey, pages >>

store == << rls, objects, receipts >>
component == << uploading, processing, progress, extractedData, refreshKey >>

(* --------------------------- record store ----------------------------- *)
\* auth.uid() = user_id: false when either side is NULL
OwnedBy(row, caller) == caller # NoUser /\ row.user_id = caller

\* policy "Users can insert own receipts"
InsertAllowed(row, caller) == rls => OwnedBy(row, caller)

\* policies "Users can view own receipts" / "Users can update own receipts"
RowVisible(row, caller) == rls => OwnedBy(row, caller)

\* the filter .eq('id', id) left out
MatchesAll(id, caller) ==
  {i \in DOMAIN receipts : RowVisible(receipts[i], caller)}

\* the rows that .eq('id', id) selects for the caller
Matches(id, caller) ==
  {i \in DOMAIN receipts : i = id /\ RowVisible(receipts[i], caller)}

\* .update(fields).eq('id', id): a partial update, only the named columns change
UpdateStatus(id, caller, status) ==
  [i \in DOMAIN receipts |->
     IF i \in Matches(id, caller)
     THEN [receipts[i] EXCEPT !.processing_status = status]
     ELSE receipts[i]]

\* the payload merged into the data the row already holds, field by field,
\* of which only total is written
UpdateCompletedMerge(id, caller, payload) ==
  [i \in DOMAIN receipts |->
     IF i \in Matches(id, caller)
     THEN [receipts[i] EXCEPT
             !.processing_status = "completed",
             !.extracted_data = IF @ = NoData THEN payload
                                ELSE [@ EXCEPT !.total = payload.total]]
     ELSE receipts[i]]

\* the completed write made conditional on the status it replaces
UpdateCompletedIfProcessing(id, caller, payload) ==
  [i \in DOMAIN receipts |->
     IF i \in Matches(id, caller) /\ receipts[i].processing_status = "processing"
     THEN [receipts[i] EXCEPT !.processing_status = "completed",
                              !.extracted_data = payload]
     ELSE receipts[i]]

\* the completed write without the extracted_data column
UpdateCompletedStatusOnly(id, caller, payload) ==
  [i \in DOMAIN receipts |->
     IF i \in Matches(id, caller)
     THEN [receipts[i] EXCEPT !.processing_status = "completed"]
     ELSE receipts[i]]

UpdateCompleted(id, caller, payload) ==
  [i \in DOMAIN receipts |->
     IF i \in Matches(id, caller)
     THEN [receipts[i] EXCEPT !.processing_status = "completed",
                              !.extracted_data = payload]
     ELSE receipts[i]]

(* ------------------------------ initial ------------------------------- *)
IdleSub ==
  [pc |-> "idle", file |-> NoFile, filePath |-> -1, receiptId |-> NoSuchId,
   log |-> << >>, toasts |-> << >>, result |-> "none"]

NoResponse == [status |-> 0, kind |-> "none", body |-> NoData]

IdleInv ==
  [pc |-> "idle", method |-> "POST", caller |-> NoUser, bodyOk |-> TRUE,
   receipt_id |-> NoSuchId, payload |-> NoData, error |-> "",
   response |-> NoResponse]

\* an exchange that is over: the response was delivered to the component, or
\* the transport failed (the request never reached the function, or the
\* response never reached the component)
ClosedInv == [IdleInv EXCEPT !.pc = "closed"]

Init ==
  /\ rls \in BOOLEAN
  /\ objects = {}
  /\ receipts = << >>
  /\ sub = [s \in Subs |-> IdleSub]
  /\ inv = [i \in Invs |-> IdleInv]
  /\ uploading = FALSE
  /\ processing = FALSE
  /\ progress = 0
  /\ extractedData = NoData
  /\ refreshKey = 0

\* the calls made so far
Calls ==
  Cardinality({s \in Subs : sub[s].pc # "idle"})
  + Cardinality({i \in Directs : inv[i].pc # "idle"})

(* ------------------------- upload orchestrator ------------------------ *)
\* the row createReceiptRecord inserts; user_id and extracted_data are not
\* named by the insert and take the column defaults (NULL)
NewReceipt(file, publicUrl) ==
  [user_id |-> NoUser, file_url |-> publicUrl, file_name |-> file.name,
   processing_status |-> "pending", extracted_data |-> NoData]

\* `receipts/${Math.random()}.${fileExt}`: a path no other call generates
FreshPath(s) == s

\* the catch block without the finally block
FailedNoFinally(s) ==
  /\ sub' = [sub EXCEPT ![s].pc = "done", ![s].result = "error",
                        ![s].toasts = Append(@, "Error")]
  /\ UNCHANGED << uploading, processing, progress, extractedData, refreshKey >>

\* catch + finally of handleFileUpload
Failed(s) ==
  /\ sub' = [sub EXCEPT ![s].pc = "done", ![s].result = "error",
                        ![s].toasts = Append(@, "Error"),
                        ![s].log = Append(@, 0)]
  /\ uploading' = FALSE
  /\ processing' = FALSE
  /\ progress' = 0
  /\ UNCHANGED << extractedData, refreshKey >>

\* the try block without the reset that finally does
SucceededKeepsProgress(s, data) ==
  /\ sub' = [sub EXCEPT ![s].pc = "done", ![s].result = "success",
                        ![s].toasts = Append(@, "Receipt processed successfully"),
                        ![s].log = Append(@, 100)]
  /\ extractedData' = data
  /\ refreshKey' = refreshKey + 1
  /\ uploading' = FALSE
  /\ processing' = FALSE
  /\ progress' = 100

\* handleFileUpload after processReceipt returned data: the rest of the try
\* block (onReceiptProcessed is handleTransactionAdded), then finally
Succeeded(s, data) ==
  /\ sub' = [sub EXCEPT ![s].pc = "done", ![s].result = "success",
                        ![s].toasts = Append(@, "Receipt processed successfully"),
                        ![s].log = @ \o << 100, 0 >>]
  /\ extractedData' = data
  /\ refreshKey' = refreshKey + 1
  /\ uploading' = FALSE
  /\ processing' = FALSE
  /\ progress' = 0

\* handleFileUpload up to the await of the storage upload
HandleFileUpload(s, files) ==
  /\ sub[s].pc = "idle"
  /\ \A t \in Subs : t < s => sub[t].pc # "idle"
  /\ Calls < MaxCalls
  /\ IF files = << >>
     THEN UNCHANGED vars
     ELSE LET file == files[1] IN
       IF file.type \notin validTypes
       THEN /\ sub' = [sub EXCEPT ![s].pc = "done", ![s].file = file,
                                  ![s].result = "rejected",
                                  ![s].toasts = Append(@, "Invalid file type")]
            /\ UNCHANGED << rls, objects, receipts, inv, component >>
       ELSE IF file.size > MaxFileSize
       THEN /\ sub' = [sub EXCEPT ![s].pc = "done", ![s].file = file,
                                  ![s].result = "rejected",
                                  ![s].toasts = Append(@, "File too large")]
            /\ UNCHANGED << rls, objects, receipts, inv, component >>
       ELSE /\ sub' = [sub EXCEPT ![s].pc = "upload", ![s].file = file,
                                  ![s].filePath = FreshPath(s),
                                  ![s].log = Append(@, 10)]
            /\ uploading' = TRUE
            /\ progress' = 10
            /\ UNCHANGED << rls, objects, receipts, inv,
                            processing, extractedData, refreshKey >>
  /\ UNCHANGED pages

\* uploadError not looked at: the submission goes on after a failed upload
UploadReturnUnchecked(s, ok) ==
  /\ sub[s].pc = "upload"
  /\ objects' = IF ok THEN objects \cup {sub[s].filePath} ELSE objects
  /\ sub' = [sub EXCEPT ![s].pc = "insert", ![s].log = Append(@, 30)]
  /\ progress' = 30
  /\ UNCHANGED << rls, receipts, inv,
                  uploading, processing, extractedData, refreshKey >>
  /\ UNCHANGED pages

\* the storage upload resolves: uploadFile returns or throws, then
\* handleFileUpload runs up to the await of the insert
UploadReturn(s, ok) ==
  /\ sub[s].pc = "upload"
  /\ IF ok /\ sub[s].filePath \notin objects
     THEN /\ objects' = objects \cup {sub[s].filePath}
          /\ sub' = [sub EXCEPT ![s].pc = "insert", ![s].log = Append(@, 30)]
          /\ progress' = 30
          /\ UNCHANGED << rls, receipts, inv,
                          uploading, processing, extractedData, refreshKey >>
     ELSE /\ Failed(s)
          /\ UNCHANGED << rls, objects, receipts, inv >>
  /\ UNCHANGED pages

\* a failed insert answered by starting the submission over
InsertReturnRetry(s, ok) ==
  /\ sub[s].pc = "insert"
  /\ LET row == NewReceipt(sub[s].file, sub[s].filePath) IN
     IF ok /\ InsertAllowed(row, SessionUser)
     THEN /\ receipts' = Append(receipts, row)
          /\ sub' = [sub EXCEPT ![s].pc = "invoke",
                                ![s].receiptId = Len(receipts) + 1,
                                ![s].log = Append(@, 50)]
          /\ progress' = 50
          /\ uploading' = FALSE
          /\ processing' = TRUE
          /\ inv' = [inv EXCEPT ![s] = [IdleInv EXCEPT
                         !.pc = "sent", !.caller = SessionUser,
                         !.receipt_id = Len(receipts) + 1]]
          /\ UNCHANGED << rls, objects, extractedData, refreshKey >>
     ELSE /\ sub' = [sub EXCEPT ![s].pc = "upload", ![s].log = Append(@, 10)]
          /\ uploading' = TRUE
          /\ progress' = 10
          /\ UNCHANGED << rls, objects, receipts, inv,
                          processing, extractedData, refreshKey >>
  /\ UNCHANGED pages

\* the insert resolves: createReceiptRecord returns or throws, then
\* handleFileUpload runs up to the await of functions.invoke
InsertReturn(s, ok) ==
  /\ sub[s].pc = "insert"
  /\ LET row == NewReceipt(sub[s].file, sub[s].filePath) IN
     IF ok /\ InsertAllowed(row, SessionUser)
     THEN /\ receipts' = Append(receipts, row)
          /\ sub' = [sub EXCEPT ![s].pc = "invoke",
                                ![s].receiptId = Len(receipts) + 1,
                                ![s].log = Append(@, 50)]
          /\ progress' = 50
          /\ uploading' = FALSE
          /\ processing' = TRUE
          /\ inv' = [inv EXCEPT ![s] = [IdleInv EXCEPT
                         !.pc = "sent", !.caller = SessionUser,
                         !.receipt_id = Len(receipts) + 1]]
          /\ UNCHANGED << rls, objects, extractedData, refreshKey >>
     ELSE /\ Failed(s)
          /\ UNCHANGED << rls, objects, receipts, inv >>
  /\ UNCHANGED pages

\* functions.invoke resolves: processReceipt returns the parsed body of a
\* 2xx response and throws on any other response or on a transport failure
InvokeReturn(s, fetchOk) ==
  /\ sub[s].pc = "invoke"
  /\ inv[s].pc \in IF fetchOk THEN {"responded"} ELSE {"sent", "responded"}
  /\ inv' = [inv EXCEPT ![s] = ClosedInv]
  /\ IF fetchOk /\ inv[s].response.status \in 200..299
     THEN Succeeded(s, inv[s].response.body)
     ELSE Failed(s)
  /\ UNCHANGED << rls, objects, receipts >>
  /\ UNCHANGED pages

(* --------------------------- edge function ---------------------------- *)
TextResponse(status, text) ==
  [status |-> status, kind |-> "text", body |-> [text |-> text]]
\* the status option left out of the Response: the status is 200
ErrorResponseOk(status, message) ==
  [status |-> 200, kind |-> "json", body |-> [error |-> message]]
ErrorResponse(status, message) ==
  [status |-> status, kind |-> "json", body |-> [error |-> message]]
DataResponse(payload) ==
  [status |-> 200, kind |-> "json", body |-> [data |-> payload]]

\* the handler returns: the response travels back to the client
Respond(i, response) ==
  inv' = [inv EXCEPT ![i].pc = "responded", ![i].response = response]

\* the requests another client than the component can send: a CORS preflight,
\* a POST without a valid token, a POST whose body is not JSON, and a POST
\* naming a receipt
DirectRequests ==
  {[IdleInv EXCEPT !.method = "OPTIONS"]}
  \cup {[IdleInv EXCEPT !.caller = NoUser]}
  \cup {[IdleInv EXCEPT !.caller = SessionUser, !.bodyOk = FALSE]}
  \cup {[IdleInv EXCEPT !.caller = u, !.receipt_id = id] :
          u \in Users, id \in Subs \cup {NoSuchId}}

\* a client sends a request to the function; the id it names is the id of
\* a record that exists, or one that no record has
DirectInvoke(i, req) ==
  /\ i \in Directs
  /\ inv[i].pc = "idle"
  /\ req.receipt_id \in DOMAIN receipts \cup {NoSuchId}
  /\ \A j \in Directs : j < i => inv[j].pc # "idle"
  /\ Calls < MaxCalls
  /\ inv' = [inv EXCEPT ![i] = [req EXCEPT !.pc = "sent"]]
  /\ UNCHANGED << store, sub, component >>
  /\ UNCHANGED pages

\* the handler without the check of the user
ServeStartNoAuth(i) ==
  /\ inv[i].pc = "sent"
  /\ IF inv[i].method = "OPTIONS"
     THEN Respond(i, TextResponse(200, "ok"))
     ELSE IF ~inv[i].bodyOk
     THEN Respond(i, ErrorResponse(500, "Unexpected end of JSON input"))
     ELSE inv' = [inv EXCEPT ![i].pc = "updProcessing"]
  /\ UNCHANGED << store, sub, component >>
  /\ UNCHANGED pages

\* serve handler up to the await of the first update: preflight,
\* auth.getUser() and req.json()
ServeStart(i) ==
  /\ inv[i].pc = "sent"
  /\ IF inv[i].method = "OPTIONS"
     THEN Respond(i, TextResponse(200, "ok"))
     ELSE IF inv[i].caller = NoUser
     THEN Respond(i, TextResponse(401, "Unauthorized"))
     ELSE IF ~inv[i].bodyOk
     THEN Respond(i, ErrorResponse(500, "Unexpected end of JSON input"))
     ELSE inv' = [inv EXCEPT ![i].pc = "updProcessing"]
  /\ UNCHANGED << store, sub, component >>
  /\ UNCHANGED pages

\* update({processing_status: 'processing'}).eq('id', receipt_id); the
\* result of the call is not looked at
ServeUpdateProcessing(i, ok) ==
  /\ inv[i].pc = "updProcessing"
  /\ receipts' = IF ok
                 THEN UpdateStatus(inv[i].receipt_id, inv[i].caller, "processing")
                 ELSE receipts
  /\ inv' = [inv EXCEPT ![i].pc = "select"]
  /\ UNCHANGED << rls, objects, sub, component >>
  /\ UNCHANGED pages

\* select('file_url').eq('id', receipt_id).single(), then the mock extraction
ServeSelect(i, ok, draw) ==
  /\ inv[i].pc = "select"
  /\ IF ok /\ Matches(inv[i].receipt_id, inv[i].caller) # {}
     THEN inv' = [inv EXCEPT ![i].pc = "updCompleted",
                             ![i].payload = mockExtractedData(draw[1], draw[2])]
     ELSE Respond(i, TextResponse(404, "Receipt not found"))
  /\ UNCHANGED << store, sub, component >>
  /\ UNCHANGED pages

\* update({processing_status: 'completed', extracted_data}).eq('id', ...)
ServeUpdateCompleted(i, ok) ==
  /\ inv[i].pc = "updCompleted"
  /\ IF ok
     THEN /\ receipts' = UpdateCompleted(inv[i].receipt_id, inv[i].caller,
                                         inv[i].payload)
          /\ Respond(i, DataResponse(inv[i].payload))
     ELSE /\ receipts' = receipts
          /\ inv' = [inv EXCEPT ![i].pc = "updFailed",
                                ![i].error = "update failed"]
  /\ UNCHANGED << rls, objects, sub, component >>
  /\ UNCHANGED pages

\* the error branch: update({processing_status: 'failed'}).eq('id', ...),
\* result not looked at, then the 400 response
ServeUpdateFailed(i, ok) ==
  /\ inv[i].pc = "updFailed"
  /\ receipts' = IF ok
                 THEN UpdateStatus(inv[i].receipt_id, inv[i].caller, "failed")
                 ELSE receipts
  /\ Respond(i, ErrorResponse(400, inv[i].error))
  /\ UNCHANGED << rls, objects, sub, component >>
  /\ UNCHANGED pages

(* -------------------------- transaction list -------------------------- *)
\* the value '' of a date input; a date is the number of its day
NoDate == 0
Dates == 1..MaxDay

\* the rows of the transactions table that the signed-in user can see
Ledger ==
  {[id |-> d, date |-> d,
    type |-> IF d % 2 = 0 THEN "income" ELSE "expense"] : d \in Dates}

\* .order('date', { ascending: false })
RECURSIVE OrderByDateDesc(_)
OrderByDateDesc(rows) ==
  IF rows = {} THEN << >>
  ELSE LET top == CHOOSE r \in rows : \A o \in rows : o.date <= r.date
       IN  <<top>> \o OrderByDateDesc(rows \ {top})

NoQuery == [by |-> "none", gte |-> NoDate, lte |-> NoDate]

\* the query fetchTransactions builds from the startDate and endDate of the
\* render whose fetchTransactions is called: a bound that is '' is left out
BuildQuery(by, start, end) == [by |-> by, gte |-> start, lte |-> end]

\* the rows the query returns
RunQuery(q) ==
  OrderByDateDesc({r \in Ledger :
                    /\ q.gte # NoDate => r.date >= q.gte
                    /\ q.lte # NoDate => r.date <= q.lte})

\* TransactionList after its first render and its mount effect
ListInit ==
  /\ startDate = NoDate
  /\ endDate = NoDate
  /\ transactions = << >>
  /\ listLoading = TRUE
  /\ query = BuildQuery("mount", NoDate, NoDate)
  /\ listToast = "none"

\* onChange of the start date input (rendered when not loading)
SetStartDate(d) ==
  /\ ~listLoading
  /\ startDate' = d
  /\ UNCHANGED << endDate, transactions, listLoading, query, listToast >>
  /\ UNCHANGED << receiptVars, refreshKey, formVars >>

\* onChange of the end date input
SetEndDate(d) ==
  /\ ~listLoading
  /\ endDate' = d
  /\ UNCHANGED << startDate, transactions, listLoading, query, listToast >>
  /\ UNCHANGED << receiptVars, refreshKey, formVars >>

\* handleFilter: fetchTransactions up to the await of the query
HandleFilter ==
  /\ ~listLoading
  /\ listLoading' = TRUE
  /\ query' = BuildQuery("filter", startDate, endDate)
  /\ UNCHANGED << startDate, endDate, transactions, listToast >>
  /\ UNCHANGED << receiptVars, refreshKey, formVars >>

\* clearFilters: the two setters, then fetchTransactions up to the await of
\* the query; the fetchTransactions that runs is the one of the current
\* render, which reads the startDate and endDate of that render
ClearFilters ==
  /\ ~listLoading
  /\ startDate' = NoDate
  /\ endDate' = NoDate
  /\ listLoading' = TRUE
  /\ query' = BuildQuery("clear", startDate, endDate)
  /\ UNCHANGED << transactions, listToast >>
  /\ UNCHANGED << receiptVars, refreshKey, formVars >>

\* the query resolves: the rest of fetchTransactions
FetchReturn(ok) ==
  /\ query # NoQuery
  /\ IF ok
     THEN /\ transactions' = RunQuery(query)
          /\ listToast' = "none"
     ELSE /\ transactions' = transactions
          /\ listToast' = "Error"
  /\ listLoading' = FALSE
  /\ query' = NoQuery
  /\ UNCHANGED << startDate, endDate >>
  /\ UNCHANGED << receiptVars, refreshKey, formVars >>

(* -------------------------- transaction form -------------------------- *)
Types == {"income", "expense"}
\* the value '' of categoryId
NoCategory == 0

\* the rows of the categories table; rank is the place of the name in the
\* order of the names
CategoryTable ==
  {[id |-> 1, rank |-> 1, type |-> "expense"],
   [id |-> 2, rank |-> 3, type |-> "expense"],
   [id |-> 3, rank |-> 2, type |-> "income"]}

\* .order('name')
RECURSIVE OrderByName(_)
OrderByName(rows) ==
  IF rows = {} THEN << >>
  ELSE LET first == CHOOSE r \in rows : \A o \in rows : r.rank <= o.rank
       IN  <<first>> \o OrderByName(rows \ {first})

\* select('*').eq('type', t).order('name')
CategoriesOfType(t) == OrderByName({c \in CategoryTable : c.type = t})

NoSubmit == [type |-> "none", category_id |-> NoCategory]

\* TransactionForm after its first render and its effect
FormInit ==
  /\ formType = "expense"
  /\ categories = << >>
  /\ categoryId = NoCategory
  /\ formLoading = FALSE
  /\ fetching = [t \in Types |-> IF t = "expense" THEN 1 ELSE 0]
  /\ submit = NoSubmit
  /\ formToast = "none"

FetchesInFlight == fetching["income"] + fetching["expense"]

\* onValueChange of the radio group, then the effect on [type]:
\* fetchCategories up to the await of the query
SetType(t) ==
  /\ t # formType
  /\ FetchesInFlight < MaxFetches
  /\ formType' = t
  /\ fetching' = [fetching EXCEPT ![t] = @ + 1]
  /\ UNCHANGED << categories, categoryId, formLoading, submit, formToast >>
  /\ UNCHANGED << receiptVars, refreshKey, listVars >>

\* a query for the categories of type t resolves: the rest of
\* fetchCategories
CategoriesReturn(t, ok) ==
  /\ fetching[t] > 0
  /\ fetching' = [fetching EXCEPT ![t] = @ - 1]
  /\ IF ok
     THEN /\ categories' = CategoriesOfType(t)
          /\ categoryId' = NoCategory
     ELSE UNCHANGED << categories, categoryId >>
  /\ UNCHANGED << formType, formLoading, submit, formToast >>
  /\ UNCHANGED << receiptVars, refreshKey, listVars >>

\* onValueChange of the category select: one of the offered categories
SetCategoryId(k) ==
  /\ k \in DOMAIN categories
  /\ categoryId' = categories[k].id
  /\ UNCHANGED << formType, categories, formLoading, fetching, submit,
                  formToast >>
  /\ UNCHANGED << receiptVars, refreshKey, listVars >>

\* handleSubmit up to the await of functions.invoke (the button is disabled
\* while loading)
HandleSubmit ==
  /\ ~formLoading
  /\ refreshKey < MaxCalls
  /\ formLoading' = TRUE
  /\ submit' = [type |-> formType, category_id |-> categoryId]
  /\ UNCHANGED << formType, categories, categoryId, fetching, formToast,
                  refreshKey >>
  /\ UNCHANGED << receiptVars, listVars >>

\* functions.invoke resolves: the rest of handleSubmit (onTransactionAdded
\* is handleTransactionAdded), then finally
SubmitReturn(ok) ==
  /\ submit # NoSubmit
  /\ IF ok
     THEN /\ formToast' = "Success"
          /\ categoryId' = NoCategory
          /\ refreshKey' = refreshKey + 1
     ELSE /\ formToast' = "Error"
          /\ UNCHANGED << categoryId, refreshKey >>
  /\ formLoading' = FALSE
  /\ submit' = NoSubmit
  /\ UNCHANGED << formType, categories, fetching >>
  /\ UNCHANGED << receiptVars, listVars >>

(* ---------------------------- specification --------------------------- *)
Next ==
  \/ \E s \in Subs, files \in ScenarioFileLists : HandleFileUpload(s, files)
  \/ \E s \in Subs, ok \in BOOLEAN : UploadReturn(s, ok)
  \/ \E s \in Subs, ok \in BOOLEAN : InsertReturn(s, ok)
  \/ \E s \in Subs, fetchOk \in BOOLEAN : InvokeReturn(s, fetchOk)
  \/ \E i \in Directs, req \in DirectRequests : DirectInvoke(i, req)
  \/ \E i \in Invs : ServeStart(i)
  \/ \E i \in Invs, ok \in BOOLEAN : ServeUpdateProcessing(i, ok)
  \/ \E i \in Invs, ok \in BOOLEAN, draw \in Draws : ServeSelect(i, ok, draw)
  \/ \E i \in Invs, ok \in BOOLEAN : ServeUpdateCompleted(i, ok)
  \/ \E i \in Invs, ok \in BOOLEAN : ServeUpdateFailed(i, ok)

\* the dashboard after construction
InitDashboard == Init /\ ListInit /\ FormInit

Spec == InitDashboard /\ [][Next]_vars

\* the component alone, offered every file of Files: the function is
\* unreachable, so that every functions.invoke fails in transport
NextValidation ==
  \/ \E s \in Subs, files \in FileLists : HandleFileUpload(s, files)
  \/ \E s \in Subs, ok \in BOOLEAN : UploadReturn(s, ok)
  \/ \E s \in Subs, ok \in BOOLEAN : InsertReturn(s, ok)
  \/ \E s \in Subs, fetchOk \in BOOLEAN : InvokeReturn(s, fetchOk)

ValidationSpec == InitDashboard /\ [][NextValidation]_vars

\* the transaction list alone
NextList ==
  \/ \E d \in Dates \cup {NoDate} : SetStartDate(d)
  \/ \E d \in Dates \cup {NoDate} : SetEndDate(d)
  \/ HandleFilter
  \/ ClearFilters
  \/ \E ok \in BOOLEAN : FetchReturn(ok)

\* the dashboard after construction, the row level security on
InitPages == InitDashboard /\ rls = TRUE

ListSpec == InitPages /\ [][NextList]_vars

\* the transaction form alone
NextForm ==
  \/ \E t \in Types : SetType(t)
  \/ \E t \in Types, ok \in BOOLEAN : CategoriesReturn(t, ok)
  \/ \E k \in 1..Cardinality(CategoryTable) : SetCategoryId(k)
  \/ HandleSubmit
  \/ \E ok \in BOOLEAN : SubmitReturn(ok)

FormSpec == InitPages /\ [][NextForm]_vars

(* ------------------------------- claims ------------------------------- *)
Ids == DOMAIN receipts
Status(id) == receipts[id].processing_status
HasData(id) == receipts[id].extracted_data # NoData

\* submission s finishes in this step
Finishes(s) == sub[s].pc # "done" /\ sub'[s].pc = "done"

\* C1: when a submission that passed validation finishes, either it surfaced
\* extracted data and its record is completed, or it surfaced an error and
\* its record was never created or is failed
C1_FinishOutcome ==
  [][\A s \in Subs :
       Finishes(s) /\ sub'[s].result # "rejected" =>
         \/ /\ sub'[s].result = "success"
            /\ extractedData' # NoData
            /\ sub'[s].receiptId \in DOMAIN receipts'
            /\ receipts'[sub'[s].receiptId].processing_status = "completed"
         \/ /\ sub'[s].result = "error"
            /\ \/ sub'[s].receiptId = NoSuchId
               \/ /\ sub'[s].receiptId \in DOMAIN receipts'
                  /\ receipts'[sub'[s].receiptId].processing_status = "failed"]_vars

\* C2: in every state, a record carries extracted data exactly when its
\* status is completed
C2_DataIffCompleted ==
  \A id \in Ids : HasData(id) <=> Status(id) = "completed"

\* C3: once a record is completed or failed, no step changes its status
C3_TerminalStatus ==
  [][\A id \in Ids :
       Status(id) \in {"completed", "failed"} =>
         receipts'[id].processing_status = Status(id)]_vars

\* the allow-list and the ceiling as the claim C4 states them
C4_Acceptable(f) ==
  /\ f.type \in {"image/jpeg", "image/png", "image/webp", "application/pdf"}
  /\ f.size <= 10485760

\* C4: handleFileUpload accepts a file exactly when its type is on the
\* allow-list and its size is at most 10 MiB; for any other file it shows one
\* validation error, writes nothing to the bucket or the table, sends no
\* request to the function and leaves uploading, processing and progress alone
C4_Validation ==
  [][\A s \in Subs :
       sub[s].pc = "idle" /\ sub'[s].pc # "idle" =>
         LET f == sub'[s].file IN
         /\ f \in Files
         /\ C4_Acceptable(f) <=> sub'[s].pc = "upload"
         /\ ~C4_Acceptable(f) =>
              /\ sub'[s].pc = "done"
              /\ sub'[s].result = "rejected"
              /\ sub'[s].toasts \in {<<"Invalid file type">>, <<"File too large">>}
              /\ UNCHANGED << objects, receipts, inv,
                              uploading, processing, progress >>]_vars

\* a file of exactly 10 MiB was accepted and, while it was in flight, a file
\* one byte larger and a file of another type were rejected
C4_Witness ==
  \E s, t \in Subs :
    /\ sub[s].pc \in {"upload", "insert", "invoke"}
    /\ sub[s].file.size = 10485760
    /\ sub[t].result = "rejected"
    /\ sub[t].file.size = 10485761
    /\ sub[t].file.type = "application/pdf"
    /\ uploading \/ processing

\* request i leaves the error branch of the handler in this step
LeavesErrorBranch(i) == inv[i].pc = "updFailed" /\ inv'[i] # inv[i]

\* C5 as stated: when the completed write of a request errors on a record
\* that is processing, the record ends failed with no extracted data and the
\* caller gets an error response
C5_EndsFailed ==
  [][\A i \in Invs :
       /\ LeavesErrorBranch(i)
       /\ inv[i].receipt_id \in Ids
       /\ Status(inv[i].receipt_id) = "processing"
       => /\ receipts'[inv[i].receipt_id].processing_status = "failed"
          /\ receipts'[inv[i].receipt_id].extracted_data = NoData
          /\ inv'[i].response.status \notin 200..299]_vars

\* C5 as amended: when the completed write errors, the handler tries the
\* failed write, which either takes effect on the record of the request or
\* changes nothing, and which never touches extracted_data; the response is
\* a 400 carrying the error, and the component that receives it finishes
\* with an error and shows no data
C5_ErrorBranch ==
  [][\A i \in Invs :
       /\ LeavesErrorBranch(i) =>
            /\ inv'[i].pc = "responded"
            /\ inv'[i].response.status = 400
            /\ inv'[i].response.body = [error |-> inv[i].error]
            /\ DOMAIN receipts' = Ids
            /\ \A id \in Ids :
                 /\ receipts'[id].extracted_data = receipts[id].extracted_data
                 /\ \/ receipts'[id] = receipts[id]
                    \/ /\ id = inv[i].receipt_id
                       /\ receipts'[id].processing_status = "failed"
       /\ i \in Subs /\ inv[i].pc = "responded" /\ inv[i].response.status = 400
            /\ Finishes(i)
            => /\ sub'[i].result = "error"
               /\ sub'[i].toasts = <<"Error">>
               /\ extractedData' = extractedData]_vars

\* a request whose completed write errored was answered 400 and its record
\* is failed without data
C5_Witness ==
  \E i \in Invs :
    /\ inv[i].pc = "responded"
    /\ inv[i].response.status = 400
    /\ inv[i].receipt_id \in Ids
    /\ Status(inv[i].receipt_id) = "failed"
    /\ ~HasData(inv[i].receipt_id)

\* the payloads an extraction can produce
Payloads == {mockExtractedData(d[1], d[2]) : d \in Draws}

\* C6: the extracted data of a record only ever changes to the whole payload
\* of the request whose completed write is applied, so that a record holds
\* no data or exactly one request's payload, also while and after a request
\* runs again on a completed record
C6_WholePayload ==
  /\ [](\A id \in Ids : receipts[id].extracted_data \in {NoData} \cup Payloads)
  /\ [][\A id \in Ids :
          receipts'[id].extracted_data # receipts[id].extracted_data =>
            \E i \in Invs :
              /\ inv[i].pc = "updCompleted"
              /\ inv[i].receipt_id = id
              /\ inv[i].payload \in Payloads
              /\ receipts'[id].extracted_data = inv[i].payload]_vars

\* a submission succeeded and showed one payload, and a later completed write
\* of another request on the same record replaced it by a different payload
C6_Witness ==
  \E s \in Subs, i \in Directs :
    /\ sub[s].result = "success"
    /\ extractedData # NoData
    /\ inv[i].pc = "responded"
    /\ inv[i].response.status = 200
    /\ inv[i].receipt_id = sub[s].receiptId
    /\ Status(sub[s].receiptId) = "completed"
    /\ receipts[sub[s].receiptId].extracted_data = inv[i].payload
    /\ extractedData.data # inv[i].payload

\* C7: a POST without a valid identity is answered 401 by the first step of
\* the handler, never reaches a later step, and changes no record
C7_Unauthorized ==
  [][\A i \in Invs :
       /\ inv'[i].method = "POST" /\ inv'[i].caller = NoUser
            => inv'[i].pc \in {"idle", "sent", "responded", "closed"}
       /\ inv[i].pc = "sent" /\ inv[i].method = "POST" /\ inv[i].caller = NoUser
            /\ inv'[i] # inv[i]
            => /\ inv'[i].pc = "responded"
               /\ inv'[i].response.status = 401
               /\ UNCHANGED << receipts, objects >>]_vars

\* an unauthenticated request was answered 401 while a record existed
C7_Witness ==
  \E i \in Invs :
    /\ inv[i].pc = "responded"
    /\ inv[i].caller = NoUser
    /\ inv[i].response.status = 401
    /\ receipts # << >>

\* no record with the id of request i is visible to its caller
NoVisibleRecord(i) ==
  ~\E id \in Ids :
     /\ id = inv[i].receipt_id
     /\ rls => (inv[i].caller # NoUser /\ receipts[id].user_id = inv[i].caller)

\* C8: a request whose id matches no record visible to the caller changes no
\* record, neither by its processing write nor later, and is answered 404
C8_NotFound ==
  [][\A i \in Invs :
       inv[i].pc \in {"updProcessing", "select"} /\ NoVisibleRecord(i)
       /\ inv'[i] # inv[i]
       => /\ receipts' = receipts
          /\ inv[i].pc = "updProcessing" => inv'[i].pc = "select"
          /\ inv[i].pc = "select" =>
               /\ inv'[i].pc = "responded"
               /\ inv'[i].response.status = 404]_vars

\* a request for an unknown id was answered 404 while a record existed
C8_Witness ==
  \E i \in Invs :
    /\ inv[i].pc = "responded"
    /\ inv[i].receipt_id = NoSuchId
    /\ inv[i].response.status = 404
    /\ receipts # << >>

\* C9: within a submission the steps are store, create record, invoke: a
\* record is created only by a submission whose file is stored, one at a
\* time, with status pending and no data; the request of a submission is
\* sent only once its record exists, in the step that created it pending;
\* and a submission that awaits or has the record has its file stored
C9_StepOrder ==
  /\ [](\A s \in Subs :
          /\ sub[s].pc \in {"insert", "invoke"} => sub[s].filePath \in objects
          /\ sub[s].receiptId # NoSuchId =>
               /\ sub[s].filePath \in objects
               /\ sub[s].receiptId \in Ids
               /\ receipts[sub[s].receiptId].file_url = sub[s].filePath
          /\ inv[s].pc # "idle" => sub[s].receiptId # NoSuchId
          /\ sub[s].pc = "invoke" <=> inv[s].pc \notin {"idle", "closed"})
  /\ [][/\ Len(receipts') >= Len(receipts)
        /\ Len(receipts') > Len(receipts) =>
             /\ Len(receipts') = Len(receipts) + 1
             /\ receipts'[Len(receipts')].processing_status = "pending"
             /\ receipts'[Len(receipts')].extracted_data = NoData
             /\ \E s \in Subs :
                  /\ sub[s].pc = "insert"
                  /\ sub[s].filePath \in objects
                  /\ sub'[s].receiptId = Len(receipts')
        /\ \A s \in Subs :
             inv[s].pc = "idle" /\ inv'[s].pc # "idle" =>
               /\ sub[s].pc = "insert"
               /\ inv'[s].pc = "sent"
               /\ inv'[s].receipt_id = sub'[s].receiptId
               /\ sub'[s].receiptId \notin Ids
               /\ sub'[s].receiptId \in DOMAIN receipts'
               /\ receipts'[sub'[s].receiptId].processing_status = "pending"
        /\ \A id \in Ids :
             receipts'[id].processing_status # Status(id) =>
               receipts'[id].processing_status # "pending"]_vars

\* a submission ran through all three steps and its record is completed
C9_Witness ==
  \E s \in Subs :
    /\ sub[s].result = "success"
    /\ sub[s].filePath \in objects
    /\ Status(sub[s].receiptId) = "completed"

\* the values a submission has written to the progress indicator, by outcome
ProgressWrites(s) ==
  IF sub[s].pc = "upload" THEN {<<10>>}
  ELSE IF sub[s].pc = "insert" THEN {<<10, 30>>}
  ELSE IF sub[s].pc = "invoke" THEN {<<10, 30, 50>>}
  ELSE IF sub[s].result = "error"
       THEN {<<10, 0>>, <<10, 30, 0>>, <<10, 30, 50, 0>>}
  ELSE IF sub[s].result = "success" THEN {<<10, 30, 50, 100, 0>>}
  ELSE {<< >>}

\* C10 as stated: what a submission writes to the indicator stays in 0..100
\* and decreases only by the reset to 0 of a failing submission; a
\* submission that succeeds wrote 10, 30, 50, 100 and ends with the
\* indicator at 100
C10_EndsAt100 ==
  [][\A s \in Subs :
       sub'[s] # sub[s] =>
         LET log == sub'[s].log IN
         /\ \A k \in DOMAIN log : log[k] \in 0..100
         /\ \A k \in DOMAIN log :
              k > 1 /\ log[k] < log[k - 1] => sub'[s].result = "error" /\ log[k] = 0
         /\ Finishes(s) /\ sub'[s].result = "success" =>
              /\ log = <<10, 30, 50, 100>>
              /\ progress' = 100]_vars

\* C10 as amended: what a submission writes to the indicator stays in 0..100
\* and never decreases except for the reset to 0 it writes last when it
\* finishes, on success as on failure; the checkpoints are written in the
\* order 10, 30, 50, 100, the indicator shows the last value written by the
\* submission that took the step, and a submission that succeeds leaves the
\* indicator at 0
C10_ProgressWrites ==
  /\ [](/\ progress \in {0, 10, 30, 50}
        /\ \A s \in Subs : sub[s].log \in ProgressWrites(s))
  /\ [][\A s \in Subs :
          sub'[s].log # sub[s].log =>
            /\ progress' = sub'[s].log[Len(sub'[s].log)]
            /\ Finishes(s) <=> progress' = 0]_vars

\* a submission succeeded: it wrote 10, 30, 50, 100 and then 0
C10_Witness ==
  \E s \in Subs :
    /\ sub[s].result = "success"
    /\ sub[s].log = <<10, 30, 50, 100, 0>>
    /\ progress = 0

\* submission s takes a step in which the call it awaits fails: the upload
\* stores nothing, the insert adds no record, or functions.invoke brings no
\* 2xx response
StepFails(s) ==
  /\ sub'[s] # sub[s]
  /\ \/ sub[s].pc = "upload" /\ sub[s].filePath \notin objects'
     \/ sub[s].pc = "insert" /\ receipts' = receipts
     \/ sub[s].pc = "invoke" /\ sub'[s].result # "success"

\* C11: when the upload, the insert or the invocation of a submission fails,
\* the submission finishes with progress 0, uploading and processing false
\* and exactly one notification, the error; it does not set extractedData
C11_FailureResets ==
  [][\A s \in Subs :
       /\ StepFails(s) =>
            /\ Finishes(s)
            /\ sub'[s].result = "error"
            /\ progress' = 0
            /\ uploading' = FALSE
            /\ processing' = FALSE
            /\ sub'[s].toasts = <<"Error">>
            /\ extractedData' = extractedData
       /\ sub[s].pc = "invoke" /\ sub'[s] # sub[s]
            /\ ~(inv[s].pc = "responded" /\ inv[s].response.status \in 200..299)
            => StepFails(s)]_vars

\* one submission failed in the invocation and another in the upload; each
\* showed the one error, and no data is shown
C11_Witness ==
  \E s, t \in Subs :
    /\ sub[s].result = "error" /\ sub[s].receiptId # NoSuchId
    /\ sub[t].result = "error" /\ sub[t].filePath \notin objects
    /\ sub[s].toasts = <<"Error">> /\ sub[t].toasts = <<"Error">>
    /\ progress = 0 /\ ~uploading /\ ~processing
    /\ extractedData = NoData

\* the records submission s has created
RowsOf(s) == {id \in Ids : receipts[id].file_url = sub[s].filePath}

\* C12: a submission issues the upload, the insert and the invocation at
\* most once each and in that order; once a step has failed the submission
\* is over and changes nothing more: after a failed upload it has no record
\* and sent no request, after a failed insert it sent no request
C12_AbortNoRetry ==
  /\ [](\A s \in Subs :
          /\ Cardinality(RowsOf(s)) <= 1
          /\ sub[s].result = "error" /\ sub[s].filePath \notin objects =>
               RowsOf(s) = {} /\ inv[s].pc = "idle"
          /\ sub[s].result = "error" /\ sub[s].receiptId = NoSuchId =>
               RowsOf(s) = {} /\ inv[s].pc = "idle")
  /\ [][/\ \A s \in Subs :
             /\ sub[s].pc = "done" => sub'[s] = sub[s]
             /\ sub'[s].pc = "upload" => sub[s].pc \in {"idle", "upload"}
             /\ sub'[s].pc = "insert" => sub[s].pc \in {"upload", "insert"}
             /\ sub'[s].pc = "invoke" => sub[s].pc \in {"insert", "invoke"}
             /\ inv'[s].pc = "sent" => inv[s].pc \in {"idle", "sent"}
             /\ StepFails(s) => sub'[s].pc = "done"
        /\ objects' # objects =>
             \E s \in Subs :
               /\ sub[s].pc = "upload" /\ sub'[s].pc = "insert"
               /\ sub[s].filePath \notin objects
               /\ objects' = objects \cup {sub[s].filePath}
        /\ receipts' # receipts /\ Len(receipts') # Len(receipts) =>
             \E s \in Subs :
               /\ sub[s].pc = "insert" /\ sub'[s].pc = "invoke"
               /\ RowsOf(s) = {}
               /\ receipts' = Append(receipts,
                                     NewReceipt(sub[s].file, sub[s].filePath))]_vars

\* a submission whose insert failed is over: its file is stored, it has no
\* record and sent no request, while a later submission ran to its request
C12_Witness ==
  \E s, t \in Subs :
    /\ sub[s].result = "error"
    /\ sub[s].filePath \in objects
    /\ sub[s].receiptId = NoSuchId
    /\ RowsOf(s) = {} /\ inv[s].pc = "idle"
    /\ sub[t].pc = "invoke"

\* request i answers with a success response in this step
RespondsData(i) ==
  /\ inv[i].pc = "updCompleted"
  /\ inv'[i].pc = "responded"
  /\ inv'[i].response.status \in 200..299

\* the one update of the step that answers request i gave its record the
\* status completed and the payload together, and the response carries that
\* payload
WrittenTogether(i) ==
  LET id == inv[i].receipt_id IN
  /\ id \in Ids
  /\ inv[i].payload \in Payloads
  /\ receipts'[id] = [receipts[id] EXCEPT !.processing_status = "completed",
                                          !.extracted_data = inv[i].payload]
  /\ \A other \in Ids \ {id} : receipts'[other] = receipts[other]
  /\ inv'[i].response.body = [data |-> inv[i].payload]

\* submission s returns the data of a success response in this step
ReturnsData(s) == Finishes(s) /\ sub'[s].result = "success"

\* C13 as stated: a success response follows one update that wrote status
\* and payload together, and when the submission returns, its record is
\* completed and holds the payload that the response carried
C13_ReturnedIsStored ==
  [][/\ \A i \in Invs : RespondsData(i) => WrittenTogether(i)
     /\ \A s \in Subs :
          ReturnsData(s) =>
            /\ Status(sub[s].receiptId) = "completed"
            /\ receipts[sub[s].receiptId].extracted_data
                 = inv[s].response.body.data]_vars

\* another request than that of submission s names the record of s and has
\* begun to run
Reinvoked(s) ==
  \E j \in Invs \ {s} :
    /\ inv[j].receipt_id = sub[s].receiptId
    /\ inv[j].pc \notin {"idle", "sent", "closed"}

\* C13 as amended: a success response follows one update that wrote status
\* and payload together, so that at the response the record is completed
\* and holds the returned payload; when the submission returns, the record
\* holds one whole payload, and it is completed with the returned payload
\* unless another request naming the record has begun to run meanwhile
C13_AtomicCompletion ==
  [][/\ \A i \in Invs : RespondsData(i) => WrittenTogether(i)
     /\ \A s \in Subs :
          ReturnsData(s) =>
            /\ receipts[sub[s].receiptId].extracted_data \in Payloads
            /\ inv[s].response.body.data \in Payloads
            /\ ~Reinvoked(s) =>
                 /\ Status(sub[s].receiptId) = "completed"
                 /\ receipts[sub[s].receiptId].extracted_data
                      = inv[s].response.body.data]_vars

\* a submission returned the payload its record holds, and the record is
\* completed: the returned total is the stored total
C13_Witness ==
  \E s \in Subs :
    /\ sub[s].result = "success"
    /\ Status(sub[s].receiptId) = "completed"
    /\ receipts[sub[s].receiptId].extracted_data = extractedData.data
    /\ receipts[sub[s].receiptId].extracted_data.total = extractedData.data.total

\* C14: the data the component shows after a success is the extracted
\* payload itself, with the fields total, date, merchant and items that
\* the function wrote to the record
C14_SurfacesPayload ==
  [][\A s \in Subs :
       ReturnsData(s) =>
         /\ DOMAIN extractedData' = {"total", "date", "merchant", "items"}
         /\ extractedData' \in Payloads
         /\ \E i \in Invs : inv[i].payload = extractedData']_vars

\* C15: every response to a POST is JSON, either {data: payload} with a
\* 2xx status or {error: message} with another status
C15_ResponseShape ==
  \A i \in Invs :
    inv[i].pc = "responded" /\ inv[i].method = "POST" =>
      /\ inv[i].response.kind = "json"
      /\ \/ /\ inv[i].response.status \in 200..299
            /\ DOMAIN inv[i].response.body = {"data"}
            /\ inv[i].response.body.data \in Payloads
         \/ /\ inv[i].response.status \notin 200..299
            /\ DOMAIN inv[i].response.body = {"error"}

\* C16: every record is owned by the user who submitted it, and no write
\* changes the owner of a record
C16_OwnerIsSubmitter ==
  /\ [](\A id \in Ids :
          /\ receipts[id].user_id = SessionUser
          /\ rls => OwnedBy(receipts[id], SessionUser))
  /\ [][\A id \in Ids : receipts'[id].user_id = receipts[id].user_id]_vars

\* the days of month m of year y
DaysInMonth(y, m) ==
  IF m \in {4, 6, 9, 11} THEN 30
  ELSE IF m # 2 THEN 31
  ELSE IF y % 4 = 0 /\ (y % 100 # 0 \/ y % 400 = 0) THEN 29
  ELSE 28

\* the calendar dates of the years around the days on which the function
\* runs, written YYYY-MM-DD
CalendarDates ==
  {Pad(t[1], 4) \o "-" \o Pad(t[2], 2) \o "-" \o Pad(t[3], 2) :
     t \in {u \in (2024..2026) \X (1..12) \X (1..31) :
              u[3] <= DaysInMonth(u[1], u[2])}}

\* payload p has a total of 0..9999 cents, a date that is a calendar date
\* written YYYY-MM-DD, and an items sequence of non-negative prices
WellFormed(p) ==
  /\ DOMAIN p = {"total", "date", "merchant", "items"}
  /\ p.total \in 0..9999
  /\ Len(p.date) = 10
  /\ p.date \in CalendarDates
  /\ p.items \in Seq([name : {"Item 1", "Item 2"}, price : 0..9999])
  /\ \A k \in DOMAIN p.items : p.items[k].price >= 0

\* C17: every payload the function produces, writes to a record or returns
\* has a total that is a whole number of cents in 0..9999, a present items
\* sequence with non-negative prices, and a date in the form YYYY-MM-DD
C17_PayloadFormat ==
  /\ \A p \in Payloads : WellFormed(p)
  /\ \A i \in Invs :
       /\ inv[i].payload # NoData => WellFormed(inv[i].payload)
       /\ inv[i].response.status = 200 /\ inv[i].method = "POST" =>
            WellFormed(inv[i].response.body.data)
  /\ \A id \in Ids : HasData(id) => WellFormed(receipts[id].extracted_data)

\* the function has produced the largest total it can draw, dated the day
\* after it produced the smallest, and both were written to records
C17_Witness ==
  \E i, j \in Invs :
    /\ inv[i].payload # NoData /\ inv[j].payload # NoData
    /\ inv[i].payload.total = 0
    /\ inv[j].payload.total = MockTotal(RandGrid - 1)
    /\ inv[j].payload.total > 0
    /\ inv[i].payload.date # inv[j].payload.date
    /\ \E id \in Ids : receipts[id].extracted_data = inv[j].payload

\* C18: the status of a record changes to completed or to failed only from
\* processing, never from pending
C18_OnlyFromProcessing ==
  [][\A id \in Ids :
       /\ receipts'[id].processing_status \in {"completed", "failed"}
       /\ receipts'[id].processing_status # Status(id)
       => Status(id) = "processing"]_vars

\* request i has been answered with a success response
Answered200(i) ==
  /\ inv[i].pc = "responded"
  /\ inv[i].payload # NoData
  /\ inv[i].response = DataResponse(inv[i].payload)

\* request i has begun to run and has not been answered
Running(i) ==
  inv[i].pc \in {"updProcessing", "select", "updCompleted", "updFailed"}

\* the record that request k names: the request of a submission names the
\* record the submission created
Target(k) == IF k \in Subs THEN sub[k].receiptId ELSE inv[k].receipt_id

\* C19: two requests on the same record both run to their answer whatever
\* the other does; the completed write of each replaces status and data
\* whole, so that when the second of them is answered the record is
\* completed with the payload of that second request, and while both are
\* answered and no other request on the record has begun, the record is
\* completed and holds, whole, the payload of one of the two
C19_LastWriterWins ==
  /\ [](\A i, j \in Invs :
          /\ i # j /\ Answered200(i) /\ Answered200(j)
          /\ inv[i].receipt_id = inv[j].receipt_id
          /\ \A k \in Invs \ {i, j} :
               Target(k) = inv[i].receipt_id => inv[k].pc = "sent"
          => /\ Status(inv[i].receipt_id) = "completed"
             /\ receipts[inv[i].receipt_id].extracted_data
                  \in {inv[i].payload, inv[j].payload})
  /\ [][\A i, j \in Invs :
          /\ i # j /\ inv[i].receipt_id = inv[j].receipt_id
          /\ RespondsData(i)
          /\ Answered200(j) \/ Running(j)
          => /\ receipts'[inv[i].receipt_id].processing_status = "completed"
             /\ receipts'[inv[i].receipt_id].extracted_data = inv[i].payload
             /\ inv'[j] = inv[j]]_vars

\* two requests on one record ran at the same time, each made its
\* processing write before either made its completed write, both were
\* answered 200 with different payloads, and the record holds the payload
\* of the one whose id is higher
C19_Witness ==
  \E i, j \in Invs :
    /\ i < j /\ Answered200(i) /\ Answered200(j)
    /\ inv[i].receipt_id = inv[j].receipt_id
    /\ inv[i].payload # inv[j].payload
    /\ Status(inv[i].receipt_id) = "completed"
    /\ receipts[inv[i].receipt_id].extracted_data = inv[j].payload

\* submission s has passed validation and has not finished
InFlight(s) == sub[s].pc \in {"upload", "insert", "invoke"}

\* C20: while a submission is in flight, uploading or processing is true
\* and progress is at least 10; when none is in flight, both are false and
\* progress is 0
C20_BusyWhileInFlight ==
  IF \E s \in Subs : InFlight(s)
  THEN (uploading \/ processing) /\ progress >= 10
  ELSE ~uploading /\ ~processing /\ progress = 0

\* C21: the fetch that clearFilters starts carries no date bound, and when
\* it resolves with data the list shown is the whole ledger; the fetch that
\* handleFilter starts carries the start and end dates shown in the inputs
C21_ClearUnfiltered ==
  [][/\ query' # query /\ query'.by = "clear" =>
          query'.gte = NoDate /\ query'.lte = NoDate
     /\ query.by = "clear" /\ query' = NoQuery /\ listToast' = "none" =>
          transactions' = OrderByDateDesc(Ledger)
     /\ query' # query /\ query'.by = "filter" =>
          query'.gte = startDate' /\ query'.lte = endDate']_vars

\* C22: when no category fetch is in flight, every category offered has the
\* selected type, and the selected category is none or one of those offered
C22_OfferedMatchType ==
  FetchesInFlight = 0 =>
    /\ \A k \in DOMAIN categories : categories[k].type = formType
    /\ \/ categoryId = NoCategory
       \/ \E k \in DOMAIN categories : categories[k].id = categoryId

====
